---- MODULE Spec2Model ----
(***************************************************************************)
(* WebBrowseTool (nanobot/agent/tools/browse.py): the session state of one *)
(* tool instance (_camoufox, _page), the dispatcher execute() and its five *)
(* handlers.  The browser, the clock and the filesystem are the            *)
(* environment: every capability call either returns or raises, chosen     *)
(* per invocation.                                                         *)
(***************************************************************************)
EXTENDS Integers, Sequences, FiniteSets, TLC

\* ------------------------------------------------------------------ bounds

\* AsyncCamoufox objects one tool instance constructs in a run
MaxLaunch == 2
\* largest value of int(time.time()) the clock reaches
MaxClock == 1
\* longest plain readability summary (in characters) a page yields
MaxTextLen == 3
\* largest maxChars a request carries (the smallest is -1)
MaxCap == 2
\* a max_chars the tool is configured with, besides the default
CfgMaxChars == 6
\* deepest nesting of paired tags in a summary handed to markdown extraction
MaxNest == 2
\* navigate invocations in flight at once on one tool instance
MaxTasks == 2

\* ------------------------------------------------------- program constants

\* __init__: max_chars: int = 50000
DefaultMaxChars == 50000
\* _navigate: timeout: int = 30000
DefaultTimeout == 30000
\* parameters: timeout "minimum": 1000, "maximum": 120000
MinTimeout == 1000
MaxTimeout == 120000

\* --------------------------------------------------------- python values

\* Optional values: None is the empty tuple, a present value x is <<x>>.
None == <<>>
Some(x) == <<x>>

\* The identity of "no object" for _camoufox and _page (objects are numbered
\* from 1 in the order they are constructed).
NoObj == 0

\* Python truthiness of an optional string (a tuple of characters):
\* None and "" are falsy.
TruthyStr(o) == o # None /\ o[1] # <<>>

\* Python truthiness of an optional int: None and 0 are falsy.
TruthyInt(o) == o # None /\ o[1] # 0

\* s[:n] on a sequence, n any integer (a negative n counts from the end).
PySliceTo(s, n) ==
  LET k == IF n >= 0 THEN (IF n < Len(s) THEN n ELSE Len(s))
           ELSE (IF Len(s) + n > 0 THEN Len(s) + n ELSE 0)
  IN  SubSeq(s, 1, k)

\* s.endswith(suf)
EndsWith(s, suf) ==
  /\ Len(s) >= Len(suf)
  /\ SubSeq(s, Len(s) - Len(suf) + 1, Len(s)) = suf

\* ------------------------------------------------------------ capabilities

\* One capability invocation, with the arguments handed to it.
Call(cap, args) == [cap |-> cap, args |-> args]

\* The capabilities invoked, by name.
Caps(calls) == {calls[i].cap : i \in DOMAIN calls}

\* What a handler hands back: the machine after it, the calls it made, and
\* either a returned payload (exc = None) or a raised exception's message.
Return(m, calls, ret) == [m |-> m, calls |-> calls, ret |-> ret, exc |-> None]
Raise(m, calls, msg) == [m |-> m, calls |-> calls, ret |-> [raised |-> TRUE], exc |-> Some(msg)]

\* json.dumps({"error": ...}); a message is a tuple of its pieces.
ErrorResult(pieces) == [error |-> pieces]

NoPageMsg == <<"No page loaded. Use navigate first.">>

\* Messages an underlying capability raises with.
Messages == {"Timeout exceeded", "Target closed"}

\* ------------------------------------------------------------------- state

VARIABLES
  camoufox,   \* self._camoufox: NoObj or the AsyncCamoufox object's number
  page,       \* self._page: NoObj or the number of the browser the page is in
  max_chars,  \* self.max_chars
  created,    \* AsyncCamoufox objects constructed so far
  live,       \* browsers entered (__aenter__ returned) and not yet exited
  files,      \* paths page.screenshot has written
  now,        \* int(time.time()) at the latest reading
  result,     \* the payload the latest execute() returned
  raised,     \* whether the latest execute() raised instead of returning
  last,       \* the latest invocation: action, parameters, what the environment
              \* returned, session state before, calls made, capability that raised
  launches,   \* launch invocations since the latest close (or construction)
  tasks       \* the navigate coroutines in flight, each at one of its awaits

vars == <<camoufox, page, max_chars, created, live, files, now, result, raised, last, launches, tasks>>

\* The tool instance and its environment as one value for the handlers.
Machine ==
  [camoufox |-> camoufox, page |-> page, max_chars |-> max_chars,
   created |-> created, live |-> live, files |-> files, now |-> now]

\* ----------------------------------------------------------------- session

\* _ensure_browser without its "page is not None" early return.
ensure_browser_relaunch(m, e) ==
  LET id == m.created + 1
      m1 == [m EXCEPT !.camoufox = id, !.created = id]
      c1 == <<Call("launch", <<>>)>>
  IN  IF e.fail = "launch"
      THEN Raise(m1, c1, e.msg)
      ELSE
        LET m2 == [m1 EXCEPT !.live = @ \cup {id}]
            c2 == Append(c1, Call("new_page", <<>>))
        IN  IF e.fail = "new_page"
            THEN Raise(m2, c2, e.msg)
            ELSE Return([m2 EXCEPT !.page = id], c2, None)

\* _ensure_browser(): nothing when a page is cached; else construct the
\* AsyncCamoufox object and store it (line 91), enter it (the launch, line 92),
\* open a page and cache it (line 93).  e.fail names the capability that raises.
ensure_browser(m, e) ==
  IF m.page # NoObj
  THEN Return(m, <<>>, None)
  ELSE
    LET id == m.created + 1
        m1 == [m EXCEPT !.camoufox = id, !.created = id]
        c1 == <<Call("launch", <<>>)>>
    IN  IF e.fail = "launch"
        THEN Raise(m1, c1, e.msg)
        ELSE
          LET m2 == [m1 EXCEPT !.live = @ \cup {id}]
              c2 == Append(c1, Call("new_page", <<>>))
          IN  IF e.fail = "new_page"
              THEN Raise(m2, c2, e.msg)
              ELSE Return([m2 EXCEPT !.page = id], c2, None)

\* close without its try/except: what the shutdown raises leaves close.
close_propagate(m, e) ==
  IF m.camoufox # NoObj
  THEN IF e.fail = "shutdown"
       THEN Raise(m, <<Call("shutdown", <<>>)>>, e.msg)
       ELSE Return([m EXCEPT !.live = @ \ {m.camoufox}, !.camoufox = NoObj, !.page = NoObj],
                   <<Call("shutdown", <<>>)>>, None)
  ELSE Return([m EXCEPT !.page = NoObj], <<>>, None)

\* close clearing the handle inside the try, after the shutdown: a shutdown
\* that raises leaves the handle stored.
close_keep_handle(m, e) ==
  IF m.camoufox # NoObj
  THEN IF e.fail = "shutdown"
       THEN Return([m EXCEPT !.page = NoObj], <<Call("shutdown", <<>>)>>, None)
       ELSE Return([m EXCEPT !.live = @ \ {m.camoufox}, !.camoufox = NoObj, !.page = NoObj],
                   <<Call("shutdown", <<>>)>>, None)
  ELSE Return([m EXCEPT !.page = NoObj], <<>>, None)

\* close(): when a browser object is stored, exit it, swallowing whatever the
\* shutdown raises, and clear the handle; clear the page in every case.
close(m, e) ==
  IF m.camoufox # NoObj
  THEN Return([m EXCEPT !.live = @ \ {m.camoufox}, !.camoufox = NoObj, !.page = NoObj],
              <<Call("shutdown", <<>>)>>, None)
  ELSE Return([m EXCEPT !.page = NoObj], <<>>, None)

\* ---------------------------------------------------------------- navigate

\* A URL string is a tuple of pieces: scheme, "://", host; "" is <<>>.
UrlScheme(u) == IF Len(u) >= 2 /\ u[2] = "://" THEN u[1] ELSE ""
UrlNetloc(u) == IF Len(u) >= 3 /\ u[2] = "://" THEN u[3] ELSE ""

\* _validate_url (nanobot.agent.tools.web): scheme and format checks, giving
\* (is_valid, error_msg).
validate_url(u) ==
  IF UrlScheme(u) \notin {"http", "https"}
  THEN [ok |-> FALSE, msg |-> "Only http/https allowed"]
  ELSE IF UrlNetloc(u) = ""
  THEN [ok |-> FALSE, msg |-> "Missing domain"]
  ELSE [ok |-> TRUE, msg |-> ""]

\* _navigate acquiring the session before it looks at the URL.
navigate_ensure_first(m, p, e) ==
  LET en == ensure_browser(m, e)
  IN  IF en.exc # None THEN en
      ELSE IF ~TruthyStr(p.url)
      THEN Return(en.m, en.calls, ErrorResult(<<"url is required for navigate action">>))
      ELSE
        LET url == p.url[1]
            v == validate_url(url)
            waitUntil == IF p.waitUntil = None THEN "load" ELSE p.waitUntil[1]
            timeout == IF p.timeout = None THEN DefaultTimeout ELSE p.timeout[1]
            c1 == Append(en.calls, Call("goto", <<url, waitUntil, timeout>>))
            c2 == Append(c1, Call("title", <<>>))
            status == IF e.response # None THEN e.response ELSE None
        IN  IF ~v.ok
            THEN Return(en.m, en.calls, [error |-> <<"URL validation failed: ", v.msg>>, url |-> url])
            ELSE IF e.fail = "goto" THEN Raise(en.m, c1, e.msg)
            ELSE IF e.fail = "title" THEN Raise(en.m, c2, e.msg)
            ELSE Return(en.m, c2,
                   [ok |-> TRUE, url |-> url, finalUrl |-> e.pageUrl,
                    status |-> status, title |-> e.title])

\* _navigate(url=None, waitUntil="load", timeout=30000)
navigate(m, p, e) ==
  IF ~TruthyStr(p.url)
  THEN Return(m, <<>>, ErrorResult(<<"url is required for navigate action">>))
  ELSE
    LET url == p.url[1]
        v == validate_url(url)
        waitUntil == IF p.waitUntil = None THEN "load" ELSE p.waitUntil[1]
        timeout == IF p.timeout = None THEN DefaultTimeout ELSE p.timeout[1]
    IN  IF ~v.ok
        THEN Return(m, <<>>, [error |-> <<"URL validation failed: ", v.msg>>, url |-> url])
        ELSE
          LET en == ensure_browser(m, e)
              c1 == Append(en.calls, Call("goto", <<url, waitUntil, timeout>>))
              c2 == Append(c1, Call("title", <<>>))
              status == IF e.response # None THEN e.response ELSE None
          IN  IF en.exc # None THEN en
              ELSE IF e.fail = "goto" THEN Raise(en.m, c1, e.msg)
              ELSE IF e.fail = "title" THEN Raise(en.m, c2, e.msg)
              ELSE Return(en.m, c2,
                     [ok |-> TRUE, url |-> url, finalUrl |-> e.pageUrl,
                      status |-> status, title |-> e.title])

\* ------------------------------------------------------ navigate, by awaits

\* A coroutine running _navigate with a valid URL, between two of its awaits:
\* pc is the await it is suspended at, cam the AsyncCamoufox object it
\* constructed, found the page it found cached at the check of
\* _ensure_browser, pg the page it called goto on, rd the page it read the
\* final URL and title from, out how it ended.
Tasks == 1..MaxTasks
IdleTask == [pc |-> "idle", cam |-> NoObj, found |-> NoObj, pg |-> NoObj, rd |-> NoObj, out |-> "none"]

\* What a step hands back: the machine, the coroutine, the payload if it returned.
Suspend(m, tk) == [m |-> m, tk |-> tk, ret |-> None]
Finish(m, tk, out, ret) == [m |-> m, tk |-> [tk EXCEPT !.pc = "done", !.out = out], ret |-> Some(ret)]

\* The step of navigate_begin without the "page is not None" check.
navigate_begin_unchecked(m, tk) ==
  LET id == m.created + 1
  IN  Suspend([m EXCEPT !.camoufox = id, !.created = id],
              [tk EXCEPT !.pc = "entering", !.cam = id, !.found = m.page])

\* From the call to the first await (lines 132-140): with a page cached,
\* _ensure_browser returns at once and goto is called on that page; with none,
\* the AsyncCamoufox object is constructed and stored (line 91) and its
\* __aenter__ is called and awaited (line 92).
navigate_begin(m, tk) ==
  IF m.page # NoObj
  THEN Suspend(m, [tk EXCEPT !.pc = "loading", !.found = m.page, !.pg = m.page])
  ELSE
    LET id == m.created + 1
    IN  Suspend([m EXCEPT !.camoufox = id, !.created = id],
                [tk EXCEPT !.pc = "entering", !.cam = id])

\* __aenter__ is back (line 92): the browser runs and new_page is called on it
\* and awaited (line 93); what it raises ends the invocation in execute.
navigate_entered(m, tk, e) ==
  IF e.fail = "launch"
  THEN Finish(m, tk, "error", ErrorResult(<<e.msg>>))
  ELSE Suspend([m EXCEPT !.live = @ \cup {tk.cam}], [tk EXCEPT !.pc = "opening"])

\* new_page is back (line 93): the page is cached and goto is called on
\* self._page (line 140).
navigate_opened(m, tk, e) ==
  IF e.fail = "new_page"
  THEN Finish(m, tk, "error", ErrorResult(<<e.msg>>))
  ELSE Suspend([m EXCEPT !.page = tk.cam], [tk EXCEPT !.pc = "loading", !.pg = tk.cam])

\* goto is back (line 140): self._page.url is read and self._page.title() is
\* called and awaited (lines 146-148).
navigate_loaded(m, tk, e) ==
  IF e.fail = "goto"
  THEN Finish(m, tk, "error", ErrorResult(<<e.msg>>))
  ELSE Suspend(m, [tk EXCEPT !.pc = "titling", !.rd = m.page])

\* title is back (line 148): the payload is returned.
navigate_titled(m, tk, e) ==
  IF e.fail = "title"
  THEN Finish(m, tk, "error", ErrorResult(<<e.msg>>))
  ELSE Finish(m, tk, "ok",
         [ok |-> TRUE, url |-> e.url, finalUrl |-> e.pageUrl, status |-> e.response, title |-> e.title])

\* -------------------------------------------------------------- extraction

\* Text is a tuple of tokens: a character, or a whole HTML tag.
AnchorOpen == {"<a href='http://x'>"}
HeadOpen == {"<h1>", "<h2>"}
Tags ==
  AnchorOpen \cup HeadOpen \cup
  {"</a>", "</h1>", "</h2>", "<li>", "</li>", "<p>", "</p>", "<div>", "</div>",
   "<section>", "</section>", "<article>", "</article>", "<br>", "<hr>"}

\* The href attribute of an anchor tag, as characters.
Href(tag) == <<"h", "t", "t", "p", ":", "/", "/", "x">>

HeadLevel(tag) == IF tag = "<h1>" THEN 1 ELSE 2
HeadClose(tag) == IF tag = "<h1>" THEN "</h1>" ELSE "</h2>"

IsSpace(t) == t \in {" ", "\n"}
NotTag(t) == t \notin Tags

RECURSIVE LStrip(_)
LStrip(s) == IF s # <<>> /\ IsSpace(Head(s)) THEN LStrip(Tail(s)) ELSE s

RECURSIVE RStrip(_)
RStrip(s) == IF s # <<>> /\ IsSpace(s[Len(s)]) THEN RStrip(SubSeq(s, 1, Len(s) - 1)) ELSE s

\* str.strip()
Strip(s) == RStrip(LStrip(s))

\* re.sub(r'[ \t]+', ' ', s)
RECURSIVE CollapseSpaces(_)
CollapseSpaces(s) ==
  IF s = <<>> THEN <<>>
  ELSE LET r == CollapseSpaces(Tail(s))
       IN  IF Head(s) = " " /\ r # <<>> /\ Head(r) = " " THEN r ELSE <<Head(s)>> \o r

\* re.sub(r'\n{3,}', '\n\n', s)
RECURSIVE CollapseNewlines(_)
CollapseNewlines(s) ==
  IF s = <<>> THEN <<>>
  ELSE LET r == CollapseNewlines(Tail(s))
       IN  IF Head(s) = "\n" /\ Len(r) >= 2 /\ r[1] = "\n" /\ r[2] = "\n"
           THEN r ELSE <<Head(s)>> \o r

\* _strip_tags (nanobot.agent.tools.web): drop every tag, trim.
strip_tags(s) == Strip(SelectSeq(s, NotTag))

\* _normalize (nanobot.agent.tools.web): collapse runs of whitespace, trim.
normalize(s) == Strip(CollapseNewlines(CollapseSpaces(s)))

\* "#" * n
RECURSIVE Hashes(_)
Hashes(n) == IF n <= 0 THEN <<>> ELSE <<"#">> \o Hashes(n - 1)

\* The three paired substitutions of _to_markdown, as re.sub applies each:
\* left to right, an opening tag matched with the nearest closing tag after it.
RuleOpens(rule, t) ==
  CASE rule = "a" -> t \in AnchorOpen
    [] rule = "h" -> t \in HeadOpen
    [] OTHER -> t = "<li>"

RuleCloser(rule, t) ==
  CASE rule = "a" -> "</a>"
    [] rule = "h" -> HeadClose(t)
    [] OTHER -> "</li>"

RuleRepl(rule, t, inner) ==
  CASE rule = "a" -> <<"[">> \o strip_tags(inner) \o <<"]", "(">> \o Href(t) \o <<")">>
    [] rule = "h" -> <<"\n">> \o Hashes(HeadLevel(t)) \o <<" ">> \o strip_tags(inner) \o <<"\n">>
    [] OTHER -> <<"\n", "-", " ">> \o strip_tags(inner)

RECURSIVE SubPaired(_, _)
SubPaired(rule, s) ==
  IF s = <<>> THEN <<>>
  ELSE
    LET h == Head(s)
        ends == {j \in 2..Len(s) : s[j] = RuleCloser(rule, h)}
    IN  IF RuleOpens(rule, h) /\ ends # {}
        THEN LET j == CHOOSE k \in ends : \A l \in ends : k <= l
             IN  RuleRepl(rule, h, SubSeq(s, 2, j - 1)) \o SubPaired(rule, SubSeq(s, j + 1, Len(s)))
        ELSE <<h>> \o SubPaired(rule, Tail(s))

\* The two single-tag substitutions: block-closing tags, then br/hr.
RECURSIVE SubSingle(_, _, _)
SubSingle(tags, repl, s) ==
  IF s = <<>> THEN <<>>
  ELSE (IF Head(s) \in tags THEN repl ELSE <<Head(s)>>) \o SubSingle(tags, repl, Tail(s))

\* _to_markdown substituting headings before anchors.
to_markdown_heading_first(s) ==
  LET t1 == SubPaired("h", s)
      t2 == SubPaired("a", t1)
      t3 == SubPaired("li", t2)
      t4 == SubSingle({"</p>", "</div>", "</section>", "</article>"}, <<"\n", "\n">>, t3)
      t5 == SubSingle({"<br>", "<hr>"}, <<"\n">>, t4)
  IN  normalize(strip_tags(t5))

\* _to_markdown(html_str)
to_markdown(s) ==
  LET t1 == SubPaired("a", s)
      t2 == SubPaired("h", t1)
      t3 == SubPaired("li", t2)
      t4 == SubSingle({"</p>", "</div>", "</section>", "</article>"}, <<"\n", "\n">>, t3)
      t5 == SubSingle({"<br>", "<hr>"}, <<"\n">>, t4)
  IN  normalize(strip_tags(t5))

\* The text _get_content builds from readability's summary and title (lines
\* 167-174), before any truncation.
extracted_text(extractMode, summary, docTitle) ==
  LET body == IF extractMode = "markdown"
              THEN to_markdown(summary)
              ELSE normalize(strip_tags(summary))
  IN  IF docTitle # <<>>
      THEN <<"#", " ">> \o docTitle \o <<"\n", "\n">> \o body
      ELSE body

\* _get_content dropping the cached page once it has read it.
get_content_release(m, p, e) ==
  IF m.page = NoObj
  THEN Return(m, <<>>, ErrorResult(NoPageMsg))
  ELSE
    LET cap == IF TruthyInt(p.maxChars) THEN p.maxChars[1] ELSE m.max_chars
        extractMode == IF p.extractMode = None THEN "text" ELSE p.extractMode[1]
        c1 == <<Call("title", <<>>)>>
        c2 == Append(c1, Call("content", <<>>))
        c3 == Append(c2, Call("extract", <<>>))
        text == extracted_text(extractMode, e.summary, e.docTitle)
        truncated == Len(text) > cap
        out == IF truncated THEN PySliceTo(text, cap) ELSE text
    IN  IF e.fail = "title" THEN Raise(m, c1, e.msg)
        ELSE IF e.fail = "content" THEN Raise(m, c2, e.msg)
        ELSE IF e.fail = "extract" THEN Raise(m, c3, e.msg)
        ELSE Return([m EXCEPT !.page = NoObj], c3,
               [url |-> e.pageUrl, title |-> e.title, extractor |-> "readability",
                truncated |-> truncated, length |-> Len(out), text |-> out])

\* _get_content acquiring the session itself when no page is cached.
get_content_acquire(m, p, e) ==
  LET en == ensure_browser(m, e)
      m0 == en.m
      cap == IF TruthyInt(p.maxChars) THEN p.maxChars[1] ELSE m0.max_chars
      extractMode == IF p.extractMode = None THEN "text" ELSE p.extractMode[1]
      c1 == Append(en.calls, Call("title", <<>>))
      c2 == Append(c1, Call("content", <<>>))
      c3 == Append(c2, Call("extract", <<>>))
      text == extracted_text(extractMode, e.summary, e.docTitle)
      truncated == Len(text) > cap
      out == IF truncated THEN PySliceTo(text, cap) ELSE text
  IN  IF en.exc # None THEN en
      ELSE IF e.fail = "title" THEN Raise(m0, c1, e.msg)
      ELSE IF e.fail = "content" THEN Raise(m0, c2, e.msg)
      ELSE IF e.fail = "extract" THEN Raise(m0, c3, e.msg)
      ELSE Return(m0, c3,
             [url |-> e.pageUrl, title |-> e.title, extractor |-> "readability",
              truncated |-> truncated, length |-> Len(out), text |-> out])

\* _get_content(extractMode="text", maxChars=None).  e.summary and e.docTitle
\* are what readability's Document gives for the page's HTML.
get_content(m, p, e) ==
  IF m.page = NoObj
  THEN Return(m, <<>>, ErrorResult(NoPageMsg))
  ELSE
    LET cap == IF TruthyInt(p.maxChars) THEN p.maxChars[1] ELSE m.max_chars
        extractMode == IF p.extractMode = None THEN "text" ELSE p.extractMode[1]
        c1 == <<Call("title", <<>>)>>
        c2 == Append(c1, Call("content", <<>>))
        c3 == Append(c2, Call("extract", <<>>))
        text == extracted_text(extractMode, e.summary, e.docTitle)
        truncated == Len(text) > cap
        out == IF truncated THEN PySliceTo(text, cap) ELSE text
    IN  IF e.fail = "title" THEN Raise(m, c1, e.msg)
        ELSE IF e.fail = "content" THEN Raise(m, c2, e.msg)
        ELSE IF e.fail = "extract" THEN Raise(m, c3, e.msg)
        ELSE Return(m, c3,
               [url |-> e.pageUrl, title |-> e.title, extractor |-> "readability",
                truncated |-> truncated, length |-> Len(out), text |-> out])

\* -------------------------------------------------------------- screenshot

\* A filename is a tuple of characters; a path is the tuple of its components
\* from the root, each a tuple of characters.
Png == <<".", "p", "n", "g">>

\* self.workspace and self.screenshot_dir (its default)
Workspace == << <<"ws">> >>
ScreenshotDir == <<"screenshots">>

RECURSIVE SplitParts(_, _)
\* The components of a string, split at "/", the one in progress being cur.
SplitParts(s, cur) ==
  IF s = <<>> THEN (IF cur = <<>> THEN <<>> ELSE <<cur>>)
  ELSE IF Head(s) = "/"
  THEN (IF cur = <<>> THEN <<>> ELSE <<cur>>) \o SplitParts(Tail(s), <<>>)
  ELSE SplitParts(Tail(s), Append(cur, Head(s)))

\* pathlib drops empty and "." components and keeps "..".
NotDot(c) == c # <<".">>
PathParts(s) == SelectSeq(SplitParts(s, <<>>), NotDot)

\* base / s: an absolute s replaces base.
PathJoin(base, s) ==
  IF s # <<>> /\ Head(s) = "/" THEN PathParts(s) ELSE base \o PathParts(s)

RECURSIVE Resolve(_, _)
\* The file a path names once the filesystem has followed its ".." components.
Resolve(path, acc) ==
  IF path = <<>> THEN acc
  ELSE IF Head(path) = <<".", ".">>
  THEN Resolve(Tail(path), IF acc = <<>> THEN <<>> ELSE SubSeq(acc, 1, Len(acc) - 1))
  ELSE Resolve(Tail(path), Append(acc, Head(path)))

Digit(d) ==
  CASE d = 0 -> "0" [] d = 1 -> "1" [] d = 2 -> "2" [] d = 3 -> "3" [] d = 4 -> "4"
    [] d = 5 -> "5" [] d = 6 -> "6" [] d = 7 -> "7" [] d = 8 -> "8" [] OTHER -> "9"

RECURSIVE IntStr(_)
\* str(n) for n >= 0
IntStr(n) == IF n < 10 THEN <<Digit(n)>> ELSE Append(IntStr(n \div 10), Digit(n % 10))

\* _screenshot creating the directory before it looks for a page.
screenshot_mkdir_first(m, p, e) ==
  LET screenshot_dir == PathJoin(Workspace, ScreenshotDir)
      c1 == <<Call("mkdir", <<screenshot_dir>>)>>
      stamped == ~TruthyStr(p.filename)
      m1 == IF stamped THEN [m EXCEPT !.now = e.t] ELSE m
      name1 == IF stamped THEN <<"screenshot_">> \o IntStr(e.t) \o Png ELSE p.filename[1]
      name2 == IF ~EndsWith(name1, Png) THEN name1 \o Png ELSE name1
      path == PathJoin(screenshot_dir, name2)
      c2 == Append(c1, Call("screenshot", <<path>>))
  IN  IF e.fail = "mkdir" THEN Raise(m, c1, e.msg)
      ELSE IF m.page = NoObj THEN Return(m, c1, ErrorResult(NoPageMsg))
      ELSE IF e.fail = "screenshot" THEN Raise(m1, c2, e.msg)
      ELSE Return([m1 EXCEPT !.files = @ \cup {Resolve(path, <<>>)}], c2,
             [ok |-> TRUE, path |-> path, url |-> e.pageUrl])

\* _screenshot(filename=None).  e.t is what int(time.time()) reads.
screenshot(m, p, e) ==
  IF m.page = NoObj
  THEN Return(m, <<>>, ErrorResult(NoPageMsg))
  ELSE
    LET screenshot_dir == PathJoin(Workspace, ScreenshotDir)
        c1 == <<Call("mkdir", <<screenshot_dir>>)>>
        stamped == ~TruthyStr(p.filename)
        m1 == IF stamped THEN [m EXCEPT !.now = e.t] ELSE m
        name1 == IF stamped THEN <<"screenshot_">> \o IntStr(e.t) \o Png ELSE p.filename[1]
        name2 == IF ~EndsWith(name1, Png) THEN name1 \o Png ELSE name1
        path == PathJoin(screenshot_dir, name2)
        c2 == Append(c1, Call("screenshot", <<path>>))
    IN  IF e.fail = "mkdir" THEN Raise(m, c1, e.msg)
        ELSE IF e.fail = "screenshot" THEN Raise(m1, c2, e.msg)
        ELSE Return([m1 EXCEPT !.files = @ \cup {Resolve(path, <<>>)}], c2,
               [ok |-> TRUE, path |-> path, url |-> e.pageUrl])

\* -------------------------------------------------------------- execute_js

\* json.dumps(..., default=str): a value json cannot serialize becomes str(value).
JsonDefault(v) == IF v[1] = "json" THEN v ELSE <<"str", v[2]>>

\* _execute_js looking for a page before it looks at the script.
execute_js_page_first(m, p, e) ==
  IF m.page = NoObj
  THEN Return(m, <<>>, ErrorResult(NoPageMsg))
  ELSE IF ~TruthyStr(p.script)
  THEN Return(m, <<>>, ErrorResult(<<"script is required for execute_js action">>))
  ELSE
    LET c1 == <<Call("evaluate", <<p.script[1]>>)>>
    IN  IF e.fail = "evaluate" THEN Raise(m, c1, e.msg)
        ELSE Return(m, c1, [ok |-> TRUE, result |-> JsonDefault(e.value)])

\* _execute_js(script=None)
execute_js(m, p, e) ==
  IF ~TruthyStr(p.script)
  THEN Return(m, <<>>, ErrorResult(<<"script is required for execute_js action">>))
  ELSE IF m.page = NoObj
  THEN Return(m, <<>>, ErrorResult(NoPageMsg))
  ELSE
    LET c1 == <<Call("evaluate", <<p.script[1]>>)>>
    IN  IF e.fail = "evaluate" THEN Raise(m, c1, e.msg)
        ELSE Return(m, c1, [ok |-> TRUE, result |-> JsonDefault(e.value)])

\* -------------------------------------------------------------- dispatcher

\* The dispatch of execute, before its except clause.
Dispatch(m, action, p, e) ==
  CASE action = "navigate" -> navigate(m, p, e)
    [] action = "get_content" -> get_content(m, p, e)
    [] action = "screenshot" -> screenshot(m, p, e)
    [] action = "execute_js" -> execute_js(m, p, e)
    [] action = "close" ->
         LET c == close(m, e)
         IN  IF c.exc # None THEN c
             ELSE Return(c.m, c.calls, [ok |-> TRUE, message |-> "Browser closed"])
    [] OTHER -> Return(m, <<>>, ErrorResult(<<"Unknown action: ", action>>))

\* execute without its except clause: what a handler raises leaves execute.
execute_nocatch(m, action, p, e) == Dispatch(m, action, p, e)

\* execute tearing the session down when a handler raises.
execute_teardown(m, action, p, e) ==
  LET r == Dispatch(m, action, p, e)
  IN  IF r.exc # None
      THEN Return([r.m EXCEPT !.camoufox = NoObj, !.page = NoObj, !.live = @ \ {r.m.camoufox}],
                  r.calls, ErrorResult(<<r.exc[1]>>))
      ELSE r

\* execute(action, **kwargs): dispatch, and turn whatever a handler raises into
\* an error payload carrying str(e).
execute(m, action, p, e) ==
  LET r == Dispatch(m, action, p, e)
  IN  IF r.exc # None THEN Return(r.m, r.calls, ErrorResult(<<r.exc[1]>>)) ELSE r

\* ------------------------------------------------------------------ inputs

ExampleUrl == <<"http", "://", "example.com">>
PageUrls == {ExampleUrl, <<"http", "://", "example.com/home">>}

\* url: missing, empty, rejected by the validator (twice), valid
UrlParams == {None, Some(<<>>), Some(<<"not a url">>), Some(<<"http", "://">>), Some(ExampleUrl)}

Letter(i) == CASE i % 3 = 1 -> "a" [] i % 3 = 2 -> "b" [] OTHER -> "c"
PlainText(n) == [i \in 1..n |-> Letter(i)]

\* <article><h1>Title</h1><p>Hello <a href='http://x'>world</a></p></article>
ExampleSummary ==
  <<"<article>", "<h1>", "T", "i", "t", "l", "e", "</h1>", "<p>", "H", "e", "l", "l", "o", " ",
    "<a href='http://x'>", "w", "o", "r", "l", "d", "</a>", "</p>", "</article>">>

Summaries == {PlainText(n) : n \in 0..MaxTextLen} \cup {ExampleSummary}

\* filename: missing, without suffix, with suffix, with a parent-directory
\* component, absolute, with a separator
FilenameParams ==
  {None, Some(<<"a">>), Some(<<"a">> \o Png), Some(<<".", ".", "/", "a">>), Some(<<"/", "a">>),
   Some(<<"d", "/", "a">>)}

ScriptParams == {None, Some(<<>>), Some(<<"1+1">>)}

\* What the environment does in one invocation: which capability raises (none
\* when fail is "none" or names a capability the invocation never reaches), with
\* which message, and the values the capabilities return.
Envs(fails, rest) ==
  {[fail |-> "none", msg |-> ""] @@ r : r \in rest}
    \cup {[fail |-> f, msg |-> g] @@ r : f \in fails, g \in Messages, r \in {CHOOSE x \in rest : TRUE}}

\* -------------------------------------------------------------- behaviours

\* The tool as __init__ leaves it, configured with max_chars mc.
Constructed(mc) ==
  /\ camoufox = NoObj
  /\ page = NoObj
  /\ max_chars = mc
  /\ created = 0
  /\ live = {}
  /\ files = {}
  /\ now = 0
  /\ result = [ok |-> TRUE]
  /\ raised = FALSE
  /\ last = [action |-> "init", p |-> <<>>, env |-> <<>>,
             pre |-> [camoufox |-> NoObj, page |-> NoObj],
             calls |-> <<>>, fail |-> "none", msg |-> ""]
  /\ launches = 0
  /\ tasks = [t \in Tasks |-> IdleTask]

Init == Constructed(DefaultMaxChars)

\* One invocation of execute(action, **p) in environment e: r is what execute
\* hands back.
Invoke(action, p, e) ==
  \E r \in {execute(Machine, action, p, e)} : \E failed \in {e.fail \in Caps(r.calls)} :
    /\ r.m.created <= MaxLaunch
    /\ camoufox' = r.m.camoufox
    /\ page' = r.m.page
    /\ max_chars' = r.m.max_chars
    /\ created' = r.m.created
    /\ live' = r.m.live
    /\ files' = r.m.files
    /\ now' = r.m.now
    /\ result' = r.ret
    /\ raised' = (r.exc # None)
    /\ last' = [action |-> action, p |-> p,
                env |-> [k \in DOMAIN e \ {"fail", "msg"} |-> e[k]],
                pre |-> [camoufox |-> camoufox, page |-> page],
                calls |-> r.calls,
                fail |-> IF failed THEN e.fail ELSE "none",
                msg |-> IF failed THEN e.msg ELSE ""]
    /\ launches' = IF action = "close" THEN 0
                   ELSE launches + Cardinality({i \in DOMAIN r.calls : r.calls[i].cap = "launch"})
    /\ tasks' = tasks

\* The session machine: every action, each handler on inputs that take each of
\* its branches.

NavigateParams ==
  {[url |-> u, waitUntil |-> None, timeout |-> None] : u \in UrlParams}
    \cup {[url |-> Some(ExampleUrl), waitUntil |-> Some("networkidle"), timeout |-> Some(500)]}

NavigateReturns ==
  {[response |-> Some(200), pageUrl |-> ExampleUrl, title |-> "T"],
   [response |-> None, pageUrl |-> <<"http", "://", "example.com/home">>, title |-> "T"]}

CallNavigate ==
  \E p \in NavigateParams :
    \E e \in Envs({"launch", "new_page", "goto", "title"}, NavigateReturns) :
      Invoke("navigate", p, e)

CallGetContent ==
  \E p \in {[extractMode |-> None, maxChars |-> None],
            [extractMode |-> Some("markdown"), maxChars |-> Some(MaxCap)]} :
    \E e \in Envs({"title", "content", "extract"},
                  {[pageUrl |-> ExampleUrl, title |-> "T",
                    summary |-> PlainText(MaxTextLen), docTitle |-> <<"T">>]}) :
      Invoke("get_content", p, e)

CallScreenshot ==
  \E filename \in {None, Some(<<"a">>)} :
    \E e \in Envs({"mkdir", "screenshot"}, {[pageUrl |-> ExampleUrl, t |-> now]}) :
      Invoke("screenshot", [filename |-> filename], e)

CallExecuteJs ==
  \E script \in ScriptParams :
    \E e \in Envs({"evaluate"}, [value : {<<"json", "2">>, <<"object", "Window">>}]) :
      Invoke("execute_js", [script |-> script], e)

CallClose ==
  \E e \in Envs({"shutdown"}, {<<>>}) :
    Invoke("close", <<>>, e)

CallUnknown ==
  \E e \in Envs({}, {<<>>}) :
    Invoke("reload", <<>>, e)

Next ==
  \/ CallNavigate
  \/ CallGetContent
  \/ CallScreenshot
  \/ CallExecuteJs
  \/ CallClose
  \/ CallUnknown

Spec == Init /\ [][Next]_vars

\* A page is loaded (navigate with a valid URL, no capability raising) and
\* get_content runs on every extraction input.

LoadPage ==
  \E e \in Envs({}, NavigateReturns) :
    Invoke("navigate", [url |-> Some(ExampleUrl), waitUntil |-> None, timeout |-> None], e)

ExtractContent ==
  \E extractMode \in {None, Some("text"), Some("markdown")},
     maxChars \in {None} \cup {Some(n) : n \in -1..MaxCap} :
    \E e \in Envs({}, [pageUrl : {ExampleUrl}, title : {"T"},
                       summary : Summaries, docTitle : {<<>>, <<"T">>}]) :
      Invoke("get_content", [extractMode |-> extractMode, maxChars |-> maxChars], e)

NextContent ==
  \/ LoadPage
  \/ ExtractContent

\* The tool with the default max_chars or a configured one.
InitContent == \E mc \in {DefaultMaxChars, CfgMaxChars} : Constructed(mc)

SpecContent == InitContent /\ [][NextContent]_vars

\* A page is loaded and screenshot runs on every filename, the clock advancing.

TakeScreenshot ==
  \E filename \in FilenameParams :
    \E e \in Envs({"mkdir", "screenshot"}, [pageUrl : {ExampleUrl}, t : now..MaxClock]) :
      Invoke("screenshot", [filename |-> filename], e)

NextShots ==
  \/ LoadPage
  \/ TakeScreenshot

SpecShots == Init /\ [][NextShots]_vars

\* A page is loaded and get_content runs in both modes on summaries with
\* paired tags nested in one another.

TagPairs ==
  {<<"<a href='http://x'>", "</a>">>, <<"<h1>", "</h1>">>, <<"<h2>", "</h2>">>,
   <<"<li>", "</li>">>, <<"<p>", "</p>">>}

RECURSIVE Nested(_)
\* Summaries with paired tags nested up to n deep.
Nested(n) ==
  IF n = 0 THEN {<<"w">>}
  ELSE Nested(n - 1) \cup {<<pr[1]>> \o s \o <<pr[2]>> : pr \in TagPairs, s \in Nested(n - 1)}

MarkupSummaries == Nested(MaxNest) \cup {ExampleSummary, <<"w", " ", "<br>", "v", "<hr>">>}

ExtractMarkup ==
  \E extractMode \in {Some("text"), Some("markdown")} :
    \E e \in Envs({}, [pageUrl : {ExampleUrl}, title : {"T"},
                       summary : MarkupSummaries, docTitle : {<<>>, <<"T">>}]) :
      Invoke("get_content", [extractMode |-> extractMode, maxChars |-> None], e)

NextMarkup ==
  \/ LoadPage
  \/ ExtractMarkup

SpecMarkup == Init /\ [][NextMarkup]_vars

\* Navigate invocations overlapping on one tool instance: the event loop runs
\* one coroutine from one await to the next, in any order.

\* A step of coroutine t took effect.
Resume(t, r) ==
  /\ camoufox' = r.m.camoufox
  /\ page' = r.m.page
  /\ created' = r.m.created
  /\ live' = r.m.live
  /\ tasks' = [tasks EXCEPT ![t] = r.tk]
  /\ launches' = launches + (IF r.tk.pc = "entering" THEN 1 ELSE 0)
  /\ result' = IF r.ret # None THEN r.ret[1] ELSE result
  /\ UNCHANGED <<max_chars, files, now, raised, last>>

\* The outcome of the await a coroutine resumes from.
Outcomes(cap) ==
  {[fail |-> "none", msg |-> "", url |-> ExampleUrl, pageUrl |-> u, response |-> Some(200), title |-> "T"] :
     u \in PageUrls}
    \cup {[fail |-> cap, msg |-> "Target closed", url |-> ExampleUrl, pageUrl |-> ExampleUrl,
           response |-> None, title |-> "T"]}

Begin(t) ==
  /\ tasks[t].pc = "idle"
  /\ Resume(t, navigate_begin(Machine, tasks[t]))

Entered(t) ==
  /\ tasks[t].pc = "entering"
  /\ \E e \in Outcomes("launch") : Resume(t, navigate_entered(Machine, tasks[t], e))

Opened(t) ==
  /\ tasks[t].pc = "opening"
  /\ \E e \in Outcomes("new_page") : Resume(t, navigate_opened(Machine, tasks[t], e))

Loaded(t) ==
  /\ tasks[t].pc = "loading"
  /\ \E e \in Outcomes("goto") : Resume(t, navigate_loaded(Machine, tasks[t], e))

Titled(t) ==
  /\ tasks[t].pc = "titling"
  /\ \E e \in Outcomes("title") : Resume(t, navigate_titled(Machine, tasks[t], e))

NextOverlap ==
  \E t \in Tasks :
    \/ Begin(t)
    \/ Entered(t)
    \/ Opened(t)
    \/ Loaded(t)
    \/ Titled(t)

SpecOverlap == Init /\ [][NextOverlap]_vars

\* ------------------------------------------------------------------ claims

\* The fields of each action's success payload.
SuccessFields(action) ==
  CASE action = "navigate" -> {"ok", "url", "finalUrl", "status", "title"}
    [] action = "get_content" -> {"url", "title", "extractor", "truncated", "length", "text"}
    [] action = "screenshot" -> {"ok", "path", "url"}
    [] action = "execute_js" -> {"ok", "result"}
    [] action = "close" -> {"ok", "message"}
    [] OTHER -> {}

IsErrorResult == DOMAIN result \in {{"error"}, {"error", "url"}}
IsNoPageError == DOMAIN result = {"error"} /\ result.error = NoPageMsg
SessionAsBefore == camoufox = last.pre.camoufox /\ page = last.pre.page

\* C1: every invocation of execute, whatever the action, the parameters, the
\* session state and the capabilities' behaviour, returns a payload and never
\* raises; the payload is either the action's success fields or an error
\* result, never both and never neither.
C1_ReturnsSuccessOrError ==
  last.action # "init" =>
    /\ ~raised
    /\ IsErrorResult # (SuccessFields(last.action) # {} /\ DOMAIN result = SuccessFields(last.action))

\* C1 witness: a page load raised inside navigate and came back as an error result.
C1_Witness == last.action = "navigate" /\ last.fail = "goto" /\ IsErrorResult /\ ~raised

\* C2 (as claimed): between invocations the page is present iff the browser
\* handle is present.
C2_PageIffHandle == (page # NoObj) <=> (camoufox # NoObj)

\* C3 (as claimed): with no close, the launch capability is invoked at most once.
C3_AtMostOneLaunch == launches <= 1

\* C3 (amended): while a page is cached, no action other than close invokes the
\* launch capability, and the cached page and handle stay the same.
C3_NoRelaunchWhilePageCached ==
  [][(page # NoObj /\ last'.action # "close") =>
       /\ "launch" \notin Caps(last'.calls)
       /\ page' = page /\ camoufox' = camoufox
       /\ launches' = launches /\ created' = created]_vars

\* C3 witness: a navigate that found a page cached loaded its URL on it, one
\* launch having happened since construction.
C3_Witness ==
  /\ last.action = "navigate" /\ last.pre.page # NoObj
  /\ "goto" \in Caps(last.calls) /\ "ok" \in DOMAIN result
  /\ launches = 1 /\ created = 1

\* C4: with no page, get_content, screenshot and execute_js with a non-empty
\* script return exactly the "No page loaded" error, invoke no capability and
\* leave the session state unchanged.
C4_NoPagePrecondition ==
  (/\ last.pre.page = NoObj
   /\ \/ last.action \in {"get_content", "screenshot"}
      \/ (last.action = "execute_js" /\ TruthyStr(last.p.script)))
    => (IsNoPageError /\ last.calls = <<>> /\ SessionAsBefore /\ ~raised)

\* C4 witness: screenshot after a close (a browser had been constructed, no page is left).
C4_Witness ==
  /\ last.action = "screenshot" /\ last.pre.page = NoObj /\ last.pre.camoufox = NoObj
  /\ created > 0

\* The URL of the latest navigate was missing or empty, or the validator rejected it.
NavigateUrlRefused ==
  /\ last.action = "navigate"
  /\ (~TruthyStr(last.p.url) \/ ~validate_url(last.p.url[1]).ok)

\* C5: navigate with a missing or empty URL, or one the validator rejects,
\* returns an error result (for a rejected URL: the validator's message and
\* url equal to the input), attempts no launch and no page load, and leaves
\* the session state as it was, whatever that was.
C5_RefusedUrlNoSideEffect ==
  NavigateUrlRefused =>
    /\ ~raised /\ IsErrorResult
    /\ last.calls = <<>> /\ SessionAsBefore
    /\ TruthyStr(last.p.url) =>
         /\ DOMAIN result = {"error", "url"}
         /\ result.error = <<"URL validation failed: ", validate_url(last.p.url[1]).msg>>
         /\ result.url = last.p.url[1]

\* C5 witness: a rejected URL handed to navigate while a page is cached.
C5_Witness ==
  /\ NavigateUrlRefused /\ last.p.url = Some(<<"not a url">>)
  /\ last.pre.page # NoObj /\ page # NoObj

CloseOk == [ok |-> TRUE, message |-> "Browser closed"]

\* C6: close returns {ok: true, message: "Browser closed"} in every session
\* state and whether or not the shutdown raises, hence also on every repeat.
C6_CloseAlwaysOk ==
  last.action = "close" => (~raised /\ DOMAIN result = DOMAIN CloseOk /\ result = CloseOk)

\* C6 witness: a close whose shutdown raised.
C6_Witness == last.action = "close" /\ last.fail = "shutdown" /\ ~raised

\* The latest action needs a page: get_content, screenshot, execute_js with a script.
NeedsPage(l) ==
  \/ l.action \in {"get_content", "screenshot"}
  \/ (l.action = "execute_js" /\ TruthyStr(l.p.script))

\* The latest action is a navigate whose URL is present and valid.
ValidNavigate(l) ==
  l.action = "navigate" /\ TruthyStr(l.p.url) /\ validate_url(l.p.url[1]).ok

\* C7: after any close both handle and page are absent, whether the shutdown
\* returned or raised; an action that needs a page, issued right after, gets
\* the "No page loaded" error, and a valid navigate issued right after
\* launches a browser object that did not exist before.
C7_CloseClearsSession ==
  [][/\ last'.action = "close" => (camoufox' = NoObj /\ page' = NoObj)
     /\ (last.action = "close" /\ NeedsPage(last')) =>
          (DOMAIN result' = {"error"} /\ result'.error = NoPageMsg)
     /\ (last.action = "close" /\ ValidNavigate(last')) =>
          /\ "launch" \in Caps(last'.calls)
          /\ created' = created + 1 /\ camoufox' = created']_vars

\* C7 witness: a close whose shutdown raised while a page was cached.
C7_Witness ==
  /\ last.action = "close" /\ last.fail = "shutdown" /\ last.pre.page # NoObj
  /\ camoufox = NoObj /\ page = NoObj

\* A capability raised inside the latest action (close swallows its own).
CapabilityRaised == last.fail # "none" /\ last.action # "close"

ClaimedCap == IF last.p.maxChars # None THEN last.p.maxChars[1] ELSE max_chars

\* The text the latest get_content extracted, title prepended, untruncated.
FullText ==
  extracted_text(IF last.p.extractMode = None THEN "text" ELSE last.p.extractMode[1],
                 last.env.summary, last.env.docTitle)

Min(a, b) == IF a < b THEN a ELSE b

\* C9 (as claimed): with cap the request's maxChars if given, else max_chars,
\* and L the length of the extracted text, get_content's result has
\* truncated = (L > cap), a text of length min(L, cap) that is a prefix of the
\* extracted text, and length = len(text).  Stated for caps of 0 and more,
\* where min(L, cap) is a length.
C9_TruncationToCap ==
  (last.action = "get_content" /\ "text" \in DOMAIN result /\ ClaimedCap >= 0) =>
    /\ result.truncated = (Len(FullText) > ClaimedCap)
    /\ Len(result.text) = Min(Len(FullText), ClaimedCap)
    /\ result.text = SubSeq(FullText, 1, Len(result.text))
    /\ result.length = Len(result.text)

\* <workspace>/<screenshot_dir>
ScreenshotRoot == PathJoin(Workspace, ScreenshotDir)

\* The file is somewhere below <workspace>/<screenshot_dir>/.
UnderScreenshotRoot(f) ==
  /\ Len(f) > Len(ScreenshotRoot)
  /\ SubSeq(f, 1, Len(ScreenshotRoot)) = ScreenshotRoot

\* C10 (as claimed): every file a screenshot writes lies under
\* <workspace>/<screenshot_dir>/ and has a name ending in .png, for every
\* filename, and the returned path is the path written.
C10_ScreenshotsUnderRoot ==
  /\ \A f \in files : UnderScreenshotRoot(f) /\ EndsWith(f[Len(f)], Png)
  /\ (last.action = "screenshot" /\ "path" \in DOMAIN result) =>
       /\ result.path = last.calls[Len(last.calls)].args[1]
       /\ Resolve(result.path, <<>>) \in files

\* The timeouts the latest invocation handed to the page-load capability.
GotoTimeouts == {last.calls[i].args[3] : i \in {j \in DOMAIN last.calls : last.calls[j].cap = "goto"}}

\* C11 (as claimed): the timeout navigate hands to the page load is 30000 when
\* the caller supplies none, and lies in [1000, 120000] for every supplied value.
C11_TimeoutInRange ==
  last.action = "navigate" =>
    \A t \in GotoTimeouts :
      /\ last.p.timeout = None => t = DefaultTimeout
      /\ MinTimeout <= t /\ t <= MaxTimeout

\* C12: the launch capability is invoked only inside a navigate whose URL is
\* present and passes validation while no page is cached; every other
\* invocation (get_content, screenshot, execute_js, close, an unknown action,
\* a navigate with a missing or rejected URL) constructs and enters no
\* browser, so a session that is absent stays absent under them.
C12_LaunchOnlyInValidNavigate ==
  [][/\ "launch" \in Caps(last'.calls) => (ValidNavigate(last') /\ page = NoObj)
     /\ ~ValidNavigate(last') =>
          /\ created' = created /\ launches' <= launches /\ live' \subseteq live
          /\ (camoufox = NoObj /\ page = NoObj) => (camoufox' = NoObj /\ page' = NoObj)]_vars

\* C12 witness: after a close, get_content found no session and launched
\* nothing (one browser had been constructed, by the earlier navigate).
C12_Witness ==
  /\ last.action = "get_content" /\ last.pre.camoufox = NoObj /\ last.pre.page = NoObj
  /\ created = 1 /\ launches = 0 /\ camoufox = NoObj /\ page = NoObj

ScriptRequiredMsg == <<"script is required for execute_js action">>

\* C14: execute_js with a missing or empty script returns the "script is
\* required" error whether or not a page is cached, calls no capability and
\* leaves the session state as it was; it returns the "No page loaded" error
\* exactly when a non-empty script is supplied and no page is cached; it
\* calls evaluate exactly when a non-empty script and a page are both present.
C14_ScriptCheckedFirst ==
  last.action = "execute_js" =>
    /\ ~TruthyStr(last.p.script) =>
         /\ DOMAIN result = {"error"} /\ result.error = ScriptRequiredMsg
         /\ last.calls = <<>> /\ SessionAsBefore /\ ~raised
    /\ IsNoPageError <=> (TruthyStr(last.p.script) /\ last.pre.page = NoObj)
    /\ ("evaluate" \in Caps(last.calls)) <=> (TruthyStr(last.p.script) /\ last.pre.page # NoObj)

\* C14 witness: execute_js with no script and no page: the script error, not
\* the page error.
C14_Witness ==
  /\ last.action = "execute_js" /\ last.p.script = None /\ last.pre.page = NoObj
  /\ DOMAIN result = {"error"} /\ result.error = ScriptRequiredMsg

\* The cap in force in an invocation l of get_content (line 160).
CapInForce(l, mc) == IF TruthyInt(l.p.maxChars) THEN l.p.maxChars[1] ELSE mc

\* A session with a page cached and nothing else behind it: one browser, no
\* file written, the clock never read, max_chars the given cap.
ReferenceSession(cap) ==
  [camoufox |-> 1, page |-> 1, max_chars |-> cap, created |-> 1, live |-> {1},
   files |-> {}, now |-> 0]

\* What get_content returns in the reference session when it observes what
\* invocation l observed (URL, title, HTML as readability reduces it), with
\* l's extractMode and the cap in force in l.
ReferenceContent(l, mc) ==
  get_content(ReferenceSession(CapInForce(l, mc)),
              [extractMode |-> l.p.extractMode, maxChars |-> None],
              [fail |-> "none", msg |-> ""] @@ l.env).ret

\* C13: an invocation of get_content changes neither the session state nor
\* anything behind it (browsers, files, clock) and calls only the reading
\* capabilities (title, content, the extractor); the payload it returns is the
\* one the reference session returns for the same observed URL, title, HTML,
\* extractMode and cap, whatever the session went through before.
C13_GetContentReadOnlyDeterministic ==
  [][last'.action = "get_content" =>
       /\ camoufox' = camoufox /\ page' = page /\ max_chars' = max_chars
       /\ created' = created /\ live' = live /\ files' = files /\ now' = now
       /\ Caps(last'.calls) \subseteq {"title", "content", "extract"}
       /\ "text" \in DOMAIN result' => result' = ReferenceContent(last', max_chars')]_vars

\* C13 witness: get_content returned content on the page of a second browser
\* (a close and a new navigate lie behind it) after a screenshot was written.
C13_Witness ==
  /\ last.action = "get_content" /\ "text" \in DOMAIN result
  /\ page = 2 /\ files # {}

\* C15 (as claimed): no screenshot action writes to a path an earlier
\* screenshot action wrote: the file a screenshot writes did not exist before.
C15_NeverOverwrites ==
  [][(last'.action = "screenshot" /\ "path" \in DOMAIN result') =>
       Resolve(result'.path, <<>>) \notin files]_vars

\* Browsers launched and not shut down that the session handle does not reference.
Unreferenced == live \ {camoufox}

\* C17 (as claimed): at most one launched and not yet shut down browser
\* exists, and it is the one the session handle references (so that close,
\* which shuts down the referenced browser only, reaches every browser
\* launched since the previous close).
C17_NoBrowserLeaked == Cardinality(live) <= 1 /\ Unreferenced = {}

\* The five substitution rules in the order the claim gives: anchors, headings,
\* list items, block-closing tags, br/hr.
MarkdownRules == <<"a", "h", "li", "block", "break">>

\* One rule applied once, left to right, to s.
ApplyRule(rule, s) ==
  CASE rule \in {"a", "h", "li"} -> SubPaired(rule, s)
    [] rule = "block" -> SubSingle({"</p>", "</div>", "</section>", "</article>"}, <<"\n", "\n">>, s)
    [] OTHER -> SubSingle({"<br>", "<hr>"}, <<"\n">>, s)

RECURSIVE ApplyInOrder(_, _)
\* The rules applied one after the other, each once, starting from s.
ApplyInOrder(rules, s) ==
  IF rules = <<>> THEN s ELSE ApplyInOrder(Tail(rules), ApplyRule(Head(rules), s))

\* What text mode does to a summary: strip the tags, normalize the whitespace.
TextMode(s) == normalize(strip_tags(s))

\* "# <title>\n\n" when the extractor found a title.
TitlePrefix(docTitle) == IF docTitle # <<>> THEN <<"#", " ">> \o docTitle \o <<"\n", "\n">> ELSE <<>>

\* sub occurs in s / is a whole line of s.
ContainsSeq(s, sub) ==
  \E i \in 1..(Len(s) - Len(sub) + 1) : SubSeq(s, i, i + Len(sub) - 1) = sub
HasLine(s, line) ==
  \E i \in 1..(Len(s) - Len(line) + 1) :
    /\ SubSeq(s, i, i + Len(line) - 1) = line
    /\ (i = 1 \/ s[i - 1] = "\n")
    /\ (i + Len(line) - 1 = Len(s) \/ s[i + Len(line)] = "\n")

TitleLine == <<"#", " ", "T", "i", "t", "l", "e">>
WorldLink == <<"[", "w", "o", "r", "l", "d", "]", "(", "h", "t", "t", "p", ":", "/", "/", "x", ")">>

\* <h1><a href='http://x'>w</a></h1> and what anchors-before-headings makes of it
LinkedHeading == <<"<h1>", "<a href='http://x'>", "w", "</a>", "</h1>">>
LinkedHeadingMarkdown == <<"#", " ", "[", "w", "]", "(", "h", "t", "t", "p", ":", "/", "/", "x", ")">>

\* The latest invocation is a get_content in markdown mode that returned content.
MarkdownExtracted ==
  /\ last.action = "get_content" /\ last.p.extractMode = Some("markdown")
  /\ "text" \in DOMAIN result

\* C16: the text of a markdown extraction is the summary with the five rules
\* applied once each in the order anchor, heading, list item, block-closing
\* tag, br/hr, then tag-stripped and whitespace-normalized as in text mode
\* (after the title prefix, if any); no tag is left in it; a heading around an
\* anchor keeps the link; and the example summary gives the line "# Title"
\* and the link "[world](http://x)".
C16_MarkdownRulesInOrder ==
  MarkdownExtracted =>
    /\ result.text = TitlePrefix(last.env.docTitle)
                        \o TextMode(ApplyInOrder(MarkdownRules, last.env.summary))
    /\ \A i \in DOMAIN result.text : result.text[i] \notin Tags
    /\ (last.env.summary = LinkedHeading /\ last.env.docTitle = <<>>) =>
         result.text = LinkedHeadingMarkdown
    /\ last.env.summary = ExampleSummary =>
         (HasLine(result.text, TitleLine) /\ ContainsSeq(result.text, WorldLink))

\* C16 witness: the example summary extracted in markdown mode, heading and
\* link both in the text.
C16_Witness ==
  /\ MarkdownExtracted /\ last.env.summary = ExampleSummary /\ last.env.docTitle = <<>>
  /\ HasLine(result.text, TitleLine) /\ ContainsSeq(result.text, WorldLink)

\* Coroutines that have passed the check of _ensure_browser.
Started == {t \in Tasks : tasks[t].pc # "idle"}

\* C18 (as claimed): with navigate invocations overlapping on a fresh tool
\* instance, one browser is launched and all invocations load on one page.
C18_OneSessionUnderOverlap ==
  /\ created <= 1
  /\ \A t, u \in Tasks : (tasks[t].pg # NoObj /\ tasks[u].pg # NoObj) => tasks[t].pg = tasks[u].pg

\* C18 (amended): an invocation launches a browser exactly when it finds no
\* page cached at its check, and then loads its URL on the page it opens
\* itself; an invocation that finds a page cached launches nothing and loads
\* on that page.  So one launch is guaranteed only among invocations whose
\* check comes after a page is cached (calls the caller serializes); the
\* launches are as many as the invocations that found no page.
C18_LaunchPerUncachedCheck ==
  /\ \A t \in Started :
       /\ (tasks[t].cam # NoObj) <=> (tasks[t].found = NoObj)
       /\ tasks[t].pg # NoObj =>
            tasks[t].pg = (IF tasks[t].found # NoObj THEN tasks[t].found ELSE tasks[t].cam)
  /\ created = Cardinality({t \in Started : tasks[t].found = NoObj})
  /\ launches = created

\* C18 witness: two invocations overlapped at session acquisition and both
\* returned success, each having launched a browser and loaded on its own page.
C18_Witness ==
  /\ \A t \in 1..2 : tasks[t].out = "ok"
  /\ tasks[1].pg # tasks[2].pg /\ created >= 2 /\ Cardinality(live) >= 2

====
